---- MODULE Spec2Model ----
(***************************************************************************)
(* A model of tafia/spine-rs: keyframe timelines and their curves          *)
(* (src/skeleton/timelines.rs), skeleton loading (src/skeleton/mod.rs) and *)
(* the sampling session (src/skeleton/animation.rs).                       *)
(*                                                                         *)
(* Numbers.  The program computes in f32.  The model computes in exact     *)
(* rational arithmetic extended with the IEEE non-finite values: a number  *)
(* is a record [n, d] in lowest terms with d >= 0, where d = 0 encodes     *)
(* +Inf (n = 1), -Inf (n = -1) and NaN (n = 0).  Division by zero and      *)
(* comparisons with NaN behave as in IEEE 754; rounding error is not       *)
(* modelled.  Angles in radians are kept as rational multiples of pi.      *)
(***************************************************************************)
EXTENDS Integers, Sequences, FiniteSets, TLC

\* ------------------------------------------------------------------------
\* f32 arithmetic (exact rationals + Inf/NaN)

Abs(i) == IF i < 0 THEN -i ELSE i

Sign(i) == IF i < 0 THEN -1 ELSE IF i > 0 THEN 1 ELSE 0

RECURSIVE Gcd(_, _)
Gcd(a, b) == IF b = 0 THEN a ELSE Gcd(b, a % b)

\* num/den with den > 0, divided through by g
Lowest(num, den, g) == [n |-> num \div g, d |-> den \div g]

\* the number num/den in canonical form
Frac(num, den) ==
    IF den = 0 THEN [n |-> Sign(num), d |-> 0]
    ELSE Lowest(Sign(den) * num, Abs(den), Gcd(Abs(num), Abs(den)))

R(i) == [n |-> i, d |-> 1]

NaN == [n |-> 0, d |-> 0]

IsNaN(a) == a.d = 0 /\ a.n = 0

FAdd(a, b) ==
    IF a.d = 0 /\ b.d = 0
    THEN (IF a.n = b.n THEN a ELSE NaN)
    ELSE Frac(a.n * b.d + b.n * a.d, a.d * b.d)

FNeg(a) == [n |-> -a.n, d |-> a.d]

FSub(a, b) == FAdd(a, FNeg(b))

FMul(a, b) == Frac(a.n * b.n, a.d * b.d)

FDiv(a, b) ==
    IF b.d = 0 /\ a.d = 0 THEN NaN
    ELSE Frac(a.n * b.d * Sign(b.n), a.d * Abs(b.n))

\* a < b, false when either is NaN
FLt(a, b) ==
    /\ ~IsNaN(a)
    /\ ~IsNaN(b)
    /\ IF a.d = 0 /\ b.d = 0 THEN a.n < b.n ELSE a.n * b.d < b.n * a.d

\* a > b
FGt(a, b) == FLt(b, a)

\* a <= b, false when either is NaN
FLe(a, b) == ~IsNaN(a) /\ ~IsNaN(b) /\ ~FLt(b, a)

\* f32::max: the other operand when one is NaN
FMax(a, b) == IF IsNaN(a) THEN b ELSE IF IsNaN(b) THEN a ELSE IF FLt(a, b) THEN b ELSE a

FAbs(a) == [n |-> Abs(a.n), d |-> a.d]

\* ------------------------------------------------------------------------
\* Option<T>

None == [some |-> FALSE]

Some(v) == [some |-> TRUE, v |-> v]

\* ------------------------------------------------------------------------
\* json::TimelineCurve

CurveLinear == [kind |-> "CurveLinear"]

CurveStepped == [kind |-> "CurveStepped"]

CurveBezier(p) == [kind |-> "CurveBezier", p |-> p]

BEZIER_SEGMENTS == 10

\* ------------------------------------------------------------------------
\* CurveTimeline::compute_points

\* the loop body of compute_points, run `left` more times on the running
\* forward differences; returns the pair of sample vectors
RECURSIVE ComputeLoop(_, _, _, _, _, _, _, _, _, _, _)
ComputeLoop(left, vec_x, vec_y, x, y, dfx, dfy, ddfx, ddfy, dddfx, dddfy) ==
    IF left = 0 THEN <<vec_x, vec_y>>
    ELSE LET dfx2 == FAdd(dfx, ddfx)
             dfy2 == FAdd(dfy, ddfy)
         IN  ComputeLoop(left - 1, Append(vec_x, x), Append(vec_y, y),
                         FAdd(x, dfx2), FAdd(y, dfy2), dfx2, dfy2,
                         FAdd(ddfx, dddfx), FAdd(ddfy, dddfy), dddfx, dddfy)

\* compute_points from `let mut dfx` on: x and y start at dfx and dfy
PointsFromDifferences(dfx, dfy, ddfx, ddfy, dddfx, dddfy) ==
    ComputeLoop(BEZIER_SEGMENTS, <<>>, <<>>, dfx, dfy, dfx, dfy, ddfx, ddfy, dddfx, dddfy)

\* compute_points from `let mut dfx` on, given the factors before it
PointsFromFactors(cx1, cy1, subdiv3, pre1, pre2, pre4, pre5, tmp1x, tmp1y, tmp2x, tmp2y) ==
    PointsFromDifferences(
        FAdd(FAdd(FMul(cx1, pre1), FMul(tmp1x, pre2)), FMul(tmp2x, subdiv3)),
        FAdd(FAdd(FMul(cy1, pre1), FMul(tmp1y, pre2)), FMul(tmp2y, subdiv3)),
        FAdd(FMul(tmp1x, pre4), FMul(tmp2x, pre5)),
        FAdd(FMul(tmp1y, pre4), FMul(tmp2y, pre5)),
        FMul(tmp2x, pre5),
        FMul(tmp2y, pre5))

\* compute_points from `let pre1` on, given the powers of subdiv1
PointsFromPowers(cx1, cy1, cx2, cy2, subdiv1, subdiv2, subdiv3) ==
    PointsFromFactors(cx1, cy1, subdiv3,
        FMul(R(3), subdiv1), FMul(R(3), subdiv2), FMul(R(6), subdiv2), FMul(R(6), subdiv3),
        FAdd(FMul(FNeg(cx1), R(2)), cx2),
        FAdd(FMul(FNeg(cy1), R(2)), cy2),
        FAdd(FMul(FSub(cx1, cx2), R(3)), R(1)),
        FAdd(FMul(FSub(cy1, cy2), R(3)), R(1)))

\* compute_points from `let subdiv2` on
PointsFromSubdiv(cx1, cy1, cx2, cy2, subdiv1) ==
    PointsFromPowers(cx1, cy1, cx2, cy2,
                     subdiv1, FMul(subdiv1, subdiv1), FMul(FMul(subdiv1, subdiv1), subdiv1))

compute_points(curve) ==
    IF curve.kind # "CurveBezier" THEN None
    ELSE Some(PointsFromSubdiv(curve.p[1], curve.p[2], curve.p[3], curve.p[4],
                               FDiv(R(1), R(BEZIER_SEGMENTS))))

\* ------------------------------------------------------------------------
\* CurveTimeline::get_percent

\* x.iter().position(|&xi| percent < xi), 1-based; 0 when there is none
RECURSIVE PositionFrom(_, _, _)
PositionFrom(x, percent, i) ==
    IF i > Len(x) THEN 0
    ELSE IF FLt(percent, x[i]) THEN i
    ELSE PositionFrom(x, percent, i + 1)

\* the `match` of the bezier arm on the position i (0 for None)
BezierMatch(x, y, percent, i) ==
    IF i = 1 THEN FDiv(FMul(y[1], percent), x[1])
    ELSE IF i > 1
    THEN FAdd(y[i], FDiv(FMul(FSub(y[i], y[i - 1]), FSub(percent, x[i - 1])),
                         FSub(x[i], x[i - 1])))
    ELSE FAdd(y[BEZIER_SEGMENTS],
              FDiv(FMul(FSub(R(1), y[BEZIER_SEGMENTS]), FSub(percent, x[BEZIER_SEGMENTS])),
                   FSub(R(1), x[BEZIER_SEGMENTS])))

\* the bezier arm of get_percent on the sample vectors (x, y)
BezierPercent(x, y, percent) == BezierMatch(x, y, percent, PositionFrom(x, percent, 1))

\* self is a CurveTimeline [time, curve, points, value]
get_percent(self, percent) ==
    IF self.curve.kind = "CurveStepped" THEN R(0)
    ELSE IF self.curve.kind = "CurveLinear" THEN percent
    ELSE BezierPercent(self.points.v[1], self.points.v[2], percent)

\* ------------------------------------------------------------------------
\* Result<T, SkeletonError>

Ok(v) == [ok |-> TRUE, v |-> v]

Err(e) == [ok |-> FALSE, err |-> e]

\* ------------------------------------------------------------------------
\* serialize::hex::FromHex on a string given as its characters' hex-digit
\* values (0..15; NotHex for any other character)

NotHex == 16

RECURSIVE HexPairs(_)
HexPairs(s) ==
    IF Len(s) = 0 THEN <<>>
    ELSE <<16 * s[1] + s[2]>> \o HexPairs(SubSeq(s, 3, Len(s)))

from_hex(s) ==
    IF (\E i \in 1..Len(s) : s[i] = NotHex) \/ Len(s) % 2 # 0
    THEN Err([kind |-> "FromHexError"])
    ELSE Ok(HexPairs(s))

\* the string "FFFFFFFF"
HexWhite == <<15, 15, 15, 15, 15, 15, 15, 15>>

\* ------------------------------------------------------------------------
\* trait Interpolate, by value kind:
\*   "rotate"                f32
\*   "translate", "scale"    (f32, f32)
\*   "color"                 Vec<u8>
\*   "attachment"            Option<String>

InterpolateF32(self, next, percent) == FAdd(self, FMul(percent, FSub(next, self)))

InterpolatePair(self, next, percent) ==
    <<FAdd(self[1], FMul(percent, FSub(next[1], self[1]))),
      FAdd(self[2], FMul(percent, FSub(next[2], self[2])))>>

\* `f as u8`: truncation toward zero, saturating at the ends, NaN to 0
AsU8(f) ==
    IF IsNaN(f) THEN 0
    ELSE IF f.d = 0 THEN (IF f.n > 0 THEN 255 ELSE 0)
    ELSE LET q == Abs(f.n) \div f.d
         IN  IF f.n < 0 THEN 0 ELSE IF q > 255 THEN 255 ELSE q

Min(a, b) == IF a < b THEN a ELSE b

\* zip stops at the shorter vector
InterpolateColor(self, next, percent) ==
    [i \in 1..Min(Len(self), Len(next)) |->
        AsU8(InterpolateF32(R(self[i]), R(next[i]), percent))]

InterpolateName(self, next, percent) == self

Interpolate(kind, self, next, percent) ==
    CASE kind = "rotate" -> InterpolateF32(self, next, percent)
      [] kind \in {"translate", "scale"} -> InterpolatePair(self, next, percent)
      [] kind = "color" -> InterpolateColor(self, next, percent)
      [] kind = "attachment" -> InterpolateName(self, next, percent)

\* ------------------------------------------------------------------------
\* trait Curve on the json keyframe structs

UnwrapOr(opt, default) == IF opt.some THEN opt.v ELSE default

RECURSIVE WrapDown(_)
WrapDown(angle) == IF FGt(angle, R(180)) THEN WrapDown(FSub(angle, R(360))) ELSE angle

RECURSIVE WrapUp(_)
WrapUp(angle) == IF FLt(angle, R(-180)) THEN WrapUp(FAdd(angle, R(360))) ELSE angle

\* the value closure of impl_curve!(json::BoneRotateTimeline, ...)
RotateValue(t) == Ok(WrapUp(WrapDown(UnwrapOr(t.angle, R(0)))))

TranslateValue(t) == Ok(<<UnwrapOr(t.x, R(0)), UnwrapOr(t.y, R(0))>>)

ScaleValue(t) == Ok(<<UnwrapOr(t.x, R(1)), UnwrapOr(t.y, R(1))>>)

ColorValue(t) == from_hex(UnwrapOr(t.color, HexWhite))

AttachmentValue(t) == Ok(t.name)

CurveValue(kind, t) ==
    CASE kind = "rotate" -> RotateValue(t)
      [] kind = "translate" -> TranslateValue(t)
      [] kind = "scale" -> ScaleValue(t)
      [] kind = "color" -> ColorValue(t)
      [] kind = "attachment" -> AttachmentValue(t)

\* Curve::curve: the declared curve, Linear when absent; always Stepped for
\* json::SlotAttachmentTimeline
CurveCurve(kind, t) ==
    IF kind = "attachment" THEN CurveStepped ELSE UnwrapOr(t.curve, CurveLinear)

\* ------------------------------------------------------------------------
\* CurveTimelines<T>: the vector `timelines` of CurveTimeline records

RECURSIVE FromJsonVecLoop(_, _, _)

\* one pass of the loop of from_json_vec: try!(t.value()), then the push
FromJsonVecStep(kind, timelines, curves, time, curve, value) ==
    IF ~value.ok THEN value
    ELSE FromJsonVecLoop(kind, Tail(timelines),
                         Append(curves, [time |-> time, curve |-> curve, value |-> value.v,
                                         points |-> compute_points(curve)]))

FromJsonVecLoop(kind, timelines, curves) ==
    IF Len(timelines) = 0 THEN Ok(curves)
    ELSE FromJsonVecStep(kind, timelines, curves, Head(timelines).time,
                         CurveCurve(kind, Head(timelines)), CurveValue(kind, Head(timelines)))

\* jtimelines is an Option<Vec<U>>
from_json_vec(kind, jtimelines) ==
    IF ~jtimelines.some THEN Ok(<<>>)
    ELSE FromJsonVecLoop(kind, jtimelines.v, <<>>)

\* the window search with the test `elapsed <= w[1].time`
RECURSIVE FindWindowInclusive(_, _, _)
FindWindowInclusive(timelines, elapsed, i) ==
    IF i + 1 > Len(timelines) THEN 0
    ELSE IF FLe(elapsed, timelines[i + 1].time) THEN i
    ELSE FindWindowInclusive(timelines, elapsed, i + 1)

\* self.timelines.windows(2).find(|&w| elapsed < w[1].time): the index of the
\* window's first keyframe, 0 when no window matches
RECURSIVE FindWindow(_, _, _)
FindWindow(timelines, elapsed, i) ==
    IF i + 1 > Len(timelines) THEN 0
    ELSE IF FLt(elapsed, timelines[i + 1].time) THEN i
    ELSE FindWindow(timelines, elapsed, i + 1)

\* the tail of interpolate on the window found: i is the index of its first
\* keyframe, 0 when the search found none
InterpolateWindow(kind, timelines, elapsed, i) ==
    IF i # 0
    THEN Some(Interpolate(kind, timelines[i].value, timelines[i + 1].value,
                 get_percent(timelines[i],
                             FDiv(FSub(elapsed, timelines[i].time),
                                  FSub(timelines[i + 1].time, timelines[i].time)))))
    ELSE Some(timelines[Len(timelines)].value)

interpolate_inclusive(kind, timelines, elapsed) ==
    IF Len(timelines) = 0 \/ FLt(elapsed, timelines[1].time) THEN None
    ELSE InterpolateWindow(kind, timelines, elapsed, FindWindowInclusive(timelines, elapsed, 1))

\* CurveTimelines::interpolate
interpolate(kind, timelines, elapsed) ==
    IF Len(timelines) = 0 \/ FLt(elapsed, timelines[1].time) THEN None
    ELSE InterpolateWindow(kind, timelines, elapsed, FindWindow(timelines, elapsed, 1))

\* ------------------------------------------------------------------------
\* The bracket fraction of CurveTimelines::interpolate as f32 computes it.
\* An f32 keeps 24 significant bits and every operation returns the exact
\* result rounded to nearest, ties to even.  The values
\* stay inside TLC's integers for magnitudes between 2^-7 and 2^30; no key
\* time or difference of SpecFraction leaves that range.

\* n / d = (a / b) * 2^e with b <= a < 2b
RECURSIVE Normalise(_, _, _)
Normalise(n, d, e) ==
    IF n >= 2 * d THEN Normalise(n, 2 * d, e + 1)
    ELSE IF n < d THEN Normalise(2 * n, d, e - 1)
    ELSE [a |-> n, b |-> d, e |-> e]

\* long division: `bits` more bits of r / b appended to the quotient q
RECURSIVE DivBits(_, _, _, _)
DivBits(q, r, b, bits) ==
    IF bits = 0 THEN [q |-> q, r |-> r]
    ELSE IF 2 * r >= b THEN DivBits(2 * q + 1, 2 * r - b, b, bits - 1)
    ELSE DivBits(2 * q, 2 * r, b, bits - 1)

\* the 24-bit quotient, rounded on the remainder: up past the half, to the
\* even neighbour on the half
RoundEven(m, b) ==
    IF 2 * m.r > b \/ (2 * m.r = b /\ m.q % 2 = 1) THEN m.q + 1 ELSE m.q

Scaled(q, e) == IF e >= 0 THEN Frac(q * 2^e, 1) ELSE Frac(q, 2^(-e))

Mantissa(s) == Scaled(RoundEven(DivBits(1, s.a - s.b, s.b, 23), s.b), s.e - 23)

\* the f32 nearest to the rational x
RoundF32(x) ==
    IF x.d = 0 \/ x.n = 0 THEN x
    ELSE IF x.n < 0 THEN FNeg(Mantissa(Normalise(-x.n, x.d, 0)))
    ELSE Mantissa(Normalise(x.n, x.d, 0))

FSub32(a, b) == RoundF32(FSub(a, b))

FDiv32(a, b) == RoundF32(FDiv(a, b))

\* let percent = (elapsed - w[0].time) / (w[1].time - w[0].time);
WindowPercent(w0, w1, elapsed) ==
    FDiv32(FSub32(elapsed, w0.time), FSub32(w1.time, w0.time))

\* the body of interpolate past the early return; w is the window found
\* (0: none) and fraction the percent handed to get_percent
InterpolateWindow32(kind, timelines, elapsed, i) ==
    IF i # 0
    THEN [out |-> Some(Interpolate(kind, timelines[i].value, timelines[i + 1].value,
                       get_percent(timelines[i],
                                   WindowPercent(timelines[i], timelines[i + 1], elapsed)))),
          w |-> i,
          fraction |-> Some(WindowPercent(timelines[i], timelines[i + 1], elapsed))]
    ELSE [out |-> Some(timelines[Len(timelines)].value), w |-> 0, fraction |-> None]

\* interpolate without its early return on elapsed < timelines[0].time
interpolate_unguarded(kind, timelines, elapsed) ==
    IF Len(timelines) = 0
    THEN [out |-> None, w |-> 0, fraction |-> None]
    ELSE InterpolateWindow32(kind, timelines, elapsed, FindWindow(timelines, elapsed, 1))

interpolate32(kind, timelines, elapsed) ==
    IF Len(timelines) = 0 \/ FLt(elapsed, timelines[1].time)
    THEN [out |-> None, w |-> 0, fraction |-> None]
    ELSE InterpolateWindow32(kind, timelines, elapsed, FindWindow(timelines, elapsed, 1))

\* ------------------------------------------------------------------------
\* skeleton::SRT.  Rotations are radians in units of pi (TO_RADIAN maps
\* degrees d to d/180); cos and sin are tabulated on the multiples of pi/2.

ToRadian(deg) == FDiv(deg, R(180))

\* the angle r reduced to [0, 2): r - 2 * floor(r / 2)
Turn(r) ==
    LET k == IF r.n >= 0 THEN r.n \div (2 * r.d)
             ELSE -((-r.n + 2 * r.d - 1) \div (2 * r.d))
    IN  FSub(r, R(2 * k))

\* cos on [0, 2), defined on the multiples of 1/2
CosTurn(a) ==
    CASE a = R(0) -> R(1)
      [] a = Frac(1, 2) -> R(0)
      [] a = R(1) -> R(-1)
      [] a = Frac(3, 2) -> R(0)

\* sin on [0, 2), defined on the multiples of 1/2
SinTurn(a) ==
    CASE a = R(0) -> R(0)
      [] a = Frac(1, 2) -> R(1)
      [] a = R(1) -> R(0)
      [] a = Frac(3, 2) -> R(-1)

Cos(r) == CosTurn(Turn(r))

Sin(r) == SinTurn(Turn(r))

\* the SRT literal of SRT::new and of SkinAnimation::interpolate
SRTOf(scale, rotation, position) ==
    [scale |-> scale, rotation |-> rotation, position |-> position,
     cos |-> Cos(rotation), sin |-> Sin(rotation)]

\* SRT::new
SRTNew(scale_x, scale_y, rotation_deg, translation_x, translation_y) ==
    SRTOf(<<UnwrapOr(scale_x, R(1)), UnwrapOr(scale_y, R(1))>>,
          ToRadian(UnwrapOr(rotation_deg, R(0))),
          <<UnwrapOr(translation_x, R(0)), UnwrapOr(translation_y, R(0))>>)

\* SRT::transform
Transform(self, v) ==
    <<FAdd(FSub(FMul(FMul(self.cos, v[1]), self.scale[1]),
                FMul(FMul(self.sin, v[2]), self.scale[2])), self.position[1]),
      FAdd(FAdd(FMul(FMul(self.sin, v[1]), self.scale[1]),
                FMul(FMul(self.cos, v[2]), self.scale[2])), self.position[2])>>

\* ------------------------------------------------------------------------
\* bone_index, slot_index.  Indices are 1-based here (0-based in the source).

RECURSIVE PositionOfName(_, _, _)
PositionOfName(name, items, i) ==
    IF i > Len(items) THEN 0
    ELSE IF items[i].name = name THEN i
    ELSE PositionOfName(name, items, i + 1)

\* bone_index falling back to the first bone when the name is unknown
bone_index_or_first(name, bones) ==
    LET i == PositionOfName(name, bones, 1)
    IN  IF i = 0 THEN Ok(1) ELSE Ok(i)

bone_index(name, bones) ==
    LET i == PositionOfName(name, bones, 1)
    IN  IF i = 0 THEN Err([kind |-> "BoneNotFound", name |-> name]) ELSE Ok(i)

slot_index(name, slots) ==
    LET i == PositionOfName(name, slots, 1)
    IN  IF i = 0 THEN Err([kind |-> "SlotNotFound", name |-> name]) ELSE Ok(i)

\* ------------------------------------------------------------------------
\* Bone::from_json, Slot::from_json, Attachment::from_json

\* the Bone literal, index the Result of the parent lookup
BoneOf(bone, index) ==
    IF ~index.ok THEN index
    ELSE Ok([name |-> bone.name,
             parent_index |-> index.v,
             length |-> UnwrapOr(bone.length, R(0)),
             srt |-> SRTNew(bone.scale_x, bone.scale_y, bone.rotation, bone.x, bone.y),
             inherit_scale |-> UnwrapOr(bone.inherit_scale, TRUE),
             inherit_rotation |-> UnwrapOr(bone.inherit_rotation, TRUE)])

\* Some(try!(bone_index(name, bones)))
SomeIndex(index) == IF index.ok THEN Ok(Some(index.v)) ELSE index

BoneFromJson(bone, bones) ==
    BoneOf(bone, IF bone.parent.some THEN SomeIndex(bone_index(bone.parent.v, bones))
                 ELSE Ok(None))

\* the Slot literal, index and color the Results of the two try!s
SlotOf(slot, index, color) ==
    IF ~index.ok THEN index
    ELSE IF ~color.ok THEN color
    ELSE Ok([name |-> slot.name,
             bone_index |-> index.v,
             color |-> color.v,
             attachment |-> slot.attachment])

SlotFromJson(slot, bones) ==
    SlotOf(slot, bone_index(slot.bone, bones), from_hex(UnwrapOr(slot.color, HexWhite)))

\* the Attachment literal, given srt and the half extents
AttachmentOf(attachment, srt, w2, h2) ==
    [name |-> attachment.name,
     type_ |-> UnwrapOr(attachment.type_, "Region"),
     positions |-> <<Transform(srt, <<FNeg(w2), h2>>),
                     Transform(srt, <<w2, h2>>),
                     Transform(srt, <<w2, FNeg(h2)>>),
                     Transform(srt, <<FNeg(w2), FNeg(h2)>>)>>]

AttachmentFromJson(attachment) ==
    AttachmentOf(attachment,
                 SRTNew(attachment.scale_x, attachment.scale_y, attachment.rotation,
                        attachment.x, attachment.y),
                 FDiv(UnwrapOr(attachment.width, R(0)), R(2)),
                 FDiv(UnwrapOr(attachment.height, R(0)), R(2)))

\* ------------------------------------------------------------------------
\* BoneTimeline::from_json, SlotTimeline::from_json

\* the BoneTimeline literal, from the Results of the three try!s
BoneTimelineOf(translate, rotate, scale) ==
    IF ~translate.ok THEN translate
    ELSE IF ~rotate.ok THEN rotate
    ELSE IF ~scale.ok THEN scale
    ELSE Ok([translate |-> translate.v, rotate |-> rotate.v, scale |-> scale.v])

BoneTimelineFromJson(json) ==
    BoneTimelineOf(from_json_vec("translate", json.translate),
                   from_json_vec("rotate", json.rotate),
                   from_json_vec("scale", json.scale))

\* the SlotTimeline literal, from the Results of the two try!s
SlotTimelineOf(attachment, color) ==
    IF ~attachment.ok THEN attachment
    ELSE IF ~color.ok THEN color
    ELSE Ok([attachment |-> attachment.v, color |-> color.v])

SlotTimelineFromJson(json) ==
    SlotTimelineOf(from_json_vec("attachment", json.attachment),
                   from_json_vec("color", json.color))

\* ------------------------------------------------------------------------
\* Animation.  A HashMap is a function on its keys; its iteration order is
\* unspecified, so a loop over a HashMap yields the set of the results of all
\* iteration orders.

\* the key times of an Option<Vec<keyframe>>
KeyTimes(opt) == IF opt.some THEN {opt.v[i].time : i \in 1..Len(opt.v)} ELSE {}

\* the values of an Option<HashMap>
MapValues(opt) == IF opt.some THEN {opt.v[k] : k \in DOMAIN opt.v} ELSE {}

\* .fold(acc, f32::max) over a set of times
RECURSIVE FoldMax(_, _)
FoldMax(times, acc) ==
    IF times = {} THEN acc
    ELSE LET t == CHOOSE x \in times : TRUE
         IN  FoldMax(times \ {t}, FMax(acc, t))

\* the fold over the bone timelines only
duration_of_bones(animation) ==
    FoldMax(UNION {KeyTimes(b.translate) \cup KeyTimes(b.rotate) \cup KeyTimes(b.scale) :
                      b \in MapValues(animation.bones)},
            R(0))

\* Animation::duration
Duration(animation) ==
    FoldMax(UNION {KeyTimes(b.translate) \cup KeyTimes(b.rotate) \cup KeyTimes(b.scale) :
                      b \in MapValues(animation.bones)}
            \cup UNION {KeyTimes(sl.attachment) \cup KeyTimes(sl.color) :
                      sl \in MapValues(animation.slots)},
            R(0))

\* the loop over animation.bones of Animation::from_json, `keys` still to visit
RECURSIVE AnimBonesLoop(_, _, _, _)

\* one pass of that loop at key `name`: the two try!s, then the push
AnimBonesStep(jbones, keys, bones, abones, name, index, timeline) ==
    IF ~index.ok THEN {index}
    ELSE IF ~timeline.ok THEN {timeline}
    ELSE AnimBonesLoop(jbones, keys \ {name}, bones, Append(abones, <<index.v, timeline.v>>))

AnimBonesLoop(jbones, keys, bones, abones) ==
    IF keys = {} THEN {Ok(abones)}
    ELSE UNION {AnimBonesStep(jbones, keys, bones, abones, name,
                              bone_index(name, bones), BoneTimelineFromJson(jbones[name])) :
                name \in keys}

\* the loop over animation.slots of Animation::from_json
RECURSIVE AnimSlotsLoop(_, _, _, _)

AnimSlotsStep(jslots, keys, slots, aslots, name, index, timeline) ==
    IF ~index.ok THEN {index}
    ELSE IF ~timeline.ok THEN {timeline}
    ELSE AnimSlotsLoop(jslots, keys \ {name}, slots, Append(aslots, <<index.v, timeline.v>>))

AnimSlotsLoop(jslots, keys, slots, aslots) ==
    IF keys = {} THEN {Ok(aslots)}
    ELSE UNION {AnimSlotsStep(jslots, keys, slots, aslots, name,
                              slot_index(name, slots), SlotTimelineFromJson(jslots[name])) :
                name \in keys}

\* Animation::from_json: the set of its possible results
AnimationFromJson(animation, bones, slots) ==
    UNION {IF ~b.ok THEN {b}
           ELSE {IF ~sl.ok THEN sl
                 ELSE Ok([duration |-> Duration(animation),
                          bones |-> b.v,
                          slots |-> sl.v,
                          events |-> UnwrapOr(animation.events, <<>>),
                          draworder |-> UnwrapOr(animation.draworder, <<>>)]) :
                 sl \in IF animation.slots.some
                        THEN AnimSlotsLoop(animation.slots.v, DOMAIN animation.slots.v,
                                           slots, <<>>)
                        ELSE {Ok(<<>>)}} :
           b \in IF animation.bones.some
                 THEN AnimBonesLoop(animation.bones.v, DOMAIN animation.bones.v, bones, <<>>)
                 ELSE {Ok(<<>>)}}

\* ------------------------------------------------------------------------
\* Skeleton::from_json

\* map.insert(key, value)
Insert(map, key, value) ==
    [k \in DOMAIN map \cup {key} |-> IF k = key THEN value ELSE map[k]]

EmptyMap == <<>>

\* the loop over doc.bones
RECURSIVE BonesLoop(_, _)

\* the new bone inserted at the front of bones instead of pushed at the back
BonesStepFront(jbones, bones, bone) ==
    IF ~bone.ok THEN bone ELSE BonesLoop(Tail(jbones), <<bone.v>> \o bones)

BonesStep(jbones, bones, bone) ==
    IF ~bone.ok THEN bone ELSE BonesLoop(Tail(jbones), Append(bones, bone.v))

BonesLoop(jbones, bones) ==
    IF Len(jbones) = 0 THEN Ok(bones)
    ELSE BonesStep(jbones, bones, BoneFromJson(Head(jbones), bones))

\* the loop over doc.slots
RECURSIVE SlotsLoop(_, _, _)

SlotsStep(jslots, bones, slots, slot) ==
    IF ~slot.ok THEN slot ELSE SlotsLoop(Tail(jslots), bones, Append(slots, slot.v))

SlotsLoop(jslots, bones, slots) ==
    IF Len(jslots) = 0 THEN Ok(slots)
    ELSE SlotsStep(jslots, bones, slots, SlotFromJson(Head(jslots), bones))

RECURSIVE AnimationsLoop(_, _, _, _, _)
AnimationsLoop(janimations, keys, bones, slots, animations) ==
    IF keys = {} THEN {Ok(animations)}
    ELSE UNION {UNION {IF ~animation.ok THEN {animation}
                       ELSE AnimationsLoop(janimations, keys \ {name}, bones, slots,
                                           Insert(animations, name, animation.v)) :
                       animation \in AnimationFromJson(janimations[name], bones, slots)} :
                name \in keys}

\* the loop over one skin's slots
RECURSIVE SkinSlotsLoop(_, _, _, _)

SkinSlotsStep(jslots, keys, slots, skin, name, index) ==
    IF ~index.ok THEN {index}
    ELSE SkinSlotsLoop(jslots, keys \ {name}, slots,
                       Append(skin, <<index.v, [a \in DOMAIN jslots[name] |->
                                                   AttachmentFromJson(jslots[name][a])]>>))

SkinSlotsLoop(jslots, keys, slots, skin) ==
    IF keys = {} THEN {Ok(skin)}
    ELSE UNION {SkinSlotsStep(jslots, keys, slots, skin, name, slot_index(name, slots)) :
                name \in keys}

RECURSIVE SkinsLoop(_, _, _, _)
SkinsLoop(jskin, keys, slots, skins) ==
    IF keys = {} THEN {Ok(skins)}
    ELSE UNION {UNION {IF ~skin.ok THEN {skin}
                       ELSE SkinsLoop(jskin, keys \ {name}, slots,
                                      Insert(skins, name, [slots |-> skin.v])) :
                       skin \in SkinSlotsLoop(jskin[name], DOMAIN jskin[name], slots, <<>>)} :
                name \in keys}

\* Skeleton::from_json after the slots: the animations, the skins, the literal
SkeletonFromSlots(doc, bones, slots) ==
    IF ~slots.ok THEN {slots}
    ELSE UNION {IF ~a.ok THEN {a}
                ELSE {IF ~sk.ok THEN sk
                      ELSE Ok([bones |-> bones,
                               slots |-> slots.v,
                               skins |-> sk.v,
                               animations |-> a.v]) :
                      sk \in IF doc.skins.some
                             THEN SkinsLoop(doc.skins.v, DOMAIN doc.skins.v, slots.v, EmptyMap)
                             ELSE {Ok(EmptyMap)}} :
                a \in IF doc.animations.some
                      THEN AnimationsLoop(doc.animations.v, DOMAIN doc.animations.v,
                                          bones, slots.v, EmptyMap)
                      ELSE {Ok(EmptyMap)}}

\* Skeleton::from_json after the bones
SkeletonFromBones(doc, bones) ==
    IF ~bones.ok THEN {bones}
    ELSE SkeletonFromSlots(doc, bones.v,
                           IF doc.slots.some THEN SlotsLoop(doc.slots.v, bones.v, <<>>)
                           ELSE Ok(<<>>))

\* Skeleton::from_json: the set of its possible results
SkeletonFromJson(doc) ==
    SkeletonFromBones(doc, IF doc.bones.some THEN BonesLoop(doc.bones.v, <<>>) ELSE Ok(<<>>))

\* Skeleton::get_skin (called by SkinAnimation::new)
get_skin(skeleton, name) ==
    IF name \in DOMAIN skeleton.skins THEN Ok(skeleton.skins[name])
    ELSE Err([kind |-> "SkinNotFound", name |-> name])

\* Skin::find: the first entry of the skin for slot_index that holds attach_name
RECURSIVE SkinFindFrom(_, _, _, _)
SkinFindFrom(self, index, attach_name, i) ==
    IF i > Len(self.slots) THEN None
    ELSE IF self.slots[i][1] = index /\ attach_name \in DOMAIN self.slots[i][2]
    THEN Some(self.slots[i][2][attach_name])
    ELSE SkinFindFrom(self, index, attach_name, i + 1)

SkinFind(self, index, attach_name) == SkinFindFrom(self, index, attach_name, 1)

\* ------------------------------------------------------------------------
\* BoneTimeline::srt, SlotTimeline::interpolate_color / interpolate_attachment /
\* get_attachment_names

\* SRT::new(scale_x, scale_y, rotation, x, y) on the three sampled values
SrtOfSamples(xy, rotation, scale) ==
    SRTNew(Some(scale[1]), Some(scale[2]), Some(rotation), Some(xy[1]), Some(xy[2]))

BoneTimelineSrt(self, elapsed) ==
    SrtOfSamples(UnwrapOr(interpolate("translate", self.translate, elapsed), <<R(0), R(0)>>),
                 UnwrapOr(interpolate("rotate", self.rotate, elapsed), R(0)),
                 UnwrapOr(interpolate("scale", self.scale, elapsed), <<R(1), R(1)>>))

White == <<255, 255, 255, 255>>

interpolate_color(self, elapsed) == UnwrapOr(interpolate("color", self.color, elapsed), White)

interpolate_attachment(self, elapsed) == interpolate("attachment", self.attachment, elapsed)

\* the names of all keyframes but the last
attachment_names_but_last(self) ==
    {self.attachment[i].value.v : i \in {j \in 1..(Len(self.attachment) - 1) :
                                            self.attachment[j].value.some}}

get_attachment_names(self) ==
    {self.attachment[i].value.v : i \in {j \in 1..Len(self.attachment) :
                                            self.attachment[j].value.some}}

\* ------------------------------------------------------------------------
\* SkinAnimation::new

\* list.iter().find(|&&(idx, _)| idx == i).map(|&(_, ref a)| a)
RECURSIVE FindIndexed(_, _, _)
FindIndexed(list, i, k) ==
    IF k > Len(list) THEN None
    ELSE IF list[k][1] = i THEN Some(list[k][2])
    ELSE FindIndexed(list, i, k + 1)

\* Option::or
OptionOr(first, second) == IF first.some THEN first ELSE second

\* the closure find_attach
FindAttach(skin, default_skin, i, name) ==
    OptionOr(SkinFind(skin, i, name), SkinFind(default_skin, i, name))

Static(attach) == [kind |-> "Static", attach |-> attach]

Dynamic(attach, names) == [kind |-> "Dynamic", attach |-> attach, names |-> names]

\* the AttachmentWrapper of a slot: Static unless the slot's timeline names
\* attachments
AttachmentWrapperOf(skin, default_skin, i, slot_attach, anim, names) ==
    IF ~anim.some THEN Static(slot_attach)
    ELSE IF names = {} THEN Static(slot_attach)
    ELSE Dynamic(slot_attach, [name \in names |-> FindAttach(skin, default_skin, i, name)])

\* one element of anim_slots, anim the slot's timeline if any
AnimSlotOf(skin, default_skin, i, s, anim) ==
    [slot |-> s,
     attach |-> AttachmentWrapperOf(skin, default_skin, i,
                    IF s.attachment.some
                    THEN FindAttach(skin, default_skin, i, s.attachment.v)
                    ELSE None,
                    anim,
                    IF anim.some THEN get_attachment_names(anim.v) ELSE {}),
     anim |-> anim]

AnimSlot(skin, default_skin, animation, i, s) ==
    AnimSlotOf(skin, default_skin, i, s,
               IF animation.some THEN FindIndexed(animation.v.slots, i, 1) ELSE None)

\* SkinAnimation::new once the skins and the animation are found
SkinAnimationOf(skeleton, skin, default_skin, anim) ==
    [duration |-> IF anim.some THEN anim.v.duration ELSE R(0),
     anim_bones |->
         [i \in 1..Len(skeleton.bones) |->
             [bone |-> skeleton.bones[i],
              anim |-> IF anim.some THEN FindIndexed(anim.v.bones, i, 1) ELSE None]],
     anim_slots |->
         [i \in 1..Len(skeleton.slots) |->
             AnimSlot(skin, default_skin, anim, i, skeleton.slots[i])]]

\* SkinAnimation::new with the "default" skin optional: the requested skin stands
\* in for a missing fallback
new_without_default(skeleton, skin, default_skin, animation) ==
    IF ~skin.ok THEN skin
    ELSE IF ~animation.some
    THEN Ok(SkinAnimationOf(skeleton, skin.v,
                            IF default_skin.ok THEN default_skin.v ELSE skin.v, None))
    ELSE IF animation.v \notin DOMAIN skeleton.animations
    THEN Err([kind |-> "AnimationNotFound", name |-> animation.v])
    ELSE Ok(SkinAnimationOf(skeleton, skin.v,
                            IF default_skin.ok THEN default_skin.v ELSE skin.v,
                            Some(skeleton.animations[animation.v])))

\* SkinAnimation::new after the two get_skin calls
SkinAnimationFromSkins(skeleton, skin, default_skin, animation) ==
    IF ~skin.ok THEN skin
    ELSE IF ~default_skin.ok THEN default_skin
    ELSE IF ~animation.some THEN Ok(SkinAnimationOf(skeleton, skin.v, default_skin.v, None))
    ELSE IF animation.v \notin DOMAIN skeleton.animations
    THEN Err([kind |-> "AnimationNotFound", name |-> animation.v])
    ELSE Ok(SkinAnimationOf(skeleton, skin.v, default_skin.v,
                            Some(skeleton.animations[animation.v])))

\* animation is an Option<&str>
SkinAnimationNew(skeleton, skin_name, animation) ==
    SkinAnimationFromSkins(skeleton, get_skin(skeleton, skin_name),
                           get_skin(skeleton, "default"), animation)

\* ------------------------------------------------------------------------
\* SkinAnimation::interpolate

\* "re-calculate sin/cos only if rotation has changed", then the srt pushed
Recalculated(b, position, scale, rotation) ==
    IF rotation # R(0)
    THEN SRTOf(scale, FAdd(b.srt.rotation, rotation), position)
    ELSE [scale |-> scale, rotation |-> b.srt.rotation, position |-> position,
          cos |-> b.srt.cos, sin |-> b.srt.sin]

\* inherit_rotation and inherit_scale ignored: the parent always contributes
InheritedAlways(b, srts, position, scale, rotation) ==
    IF b.parent_index.some /\ b.parent_index.v <= Len(srts)
    THEN Recalculated(b,
             Transform(srts[b.parent_index.v], position),
             <<FMul(scale[1], srts[b.parent_index.v].scale[1]),
               FMul(scale[2], srts[b.parent_index.v].scale[2])>>,
             FAdd(rotation, srts[b.parent_index.v].rotation))
    ELSE Recalculated(b, position, scale, rotation)

\* "inherit world from parent srt", on the local position, scale and rotation
Inherited(b, srts, position, scale, rotation) ==
    IF b.parent_index.some /\ b.parent_index.v <= Len(srts)
    THEN Recalculated(b,
             Transform(srts[b.parent_index.v], position),
             IF b.inherit_scale
             THEN <<FMul(scale[1], srts[b.parent_index.v].scale[1]),
                    FMul(scale[2], srts[b.parent_index.v].scale[2])>>
             ELSE scale,
             IF b.inherit_rotation
             THEN FAdd(rotation, srts[b.parent_index.v].rotation)
             ELSE rotation)
    ELSE Recalculated(b, position, scale, rotation)

\* "add animation srt" to the setup pose of b
Animated(b, srts, anim_srt) ==
    Inherited(b, srts,
              <<FAdd(b.srt.position[1], anim_srt.position[1]),
                FAdd(b.srt.position[2], anim_srt.position[2])>>,
              <<FMul(b.srt.scale[1], anim_srt.scale[1]),
                FMul(b.srt.scale[2], anim_srt.scale[2])>>,
              FAdd(R(0), anim_srt.rotation))

\* one pass of the bone loop: the world srt of bone entry e, given the srts
\* solved so far
SolveBone(e, srts, time) ==
    IF e.anim.some THEN Animated(e.bone, srts, BoneTimelineSrt(e.anim.v, time))
    ELSE Inherited(e.bone, srts, e.bone.srt.position, e.bone.srt.scale, R(0))

\* the bone loop: "calculate all bones srt"
RECURSIVE SolveBones(_, _, _)
SolveBones(anim_bones, srts, time) ==
    IF Len(srts) = Len(anim_bones) THEN srts
    ELSE SolveBones(anim_bones,
                    Append(srts, SolveBone(anim_bones[Len(srts) + 1], srts, time)),
                    time)

\* a panic (a failed unwrap or expect) inside interpolate
Panic(msg) == [some |-> FALSE, panic |-> msg]

\* the match on anim.unwrap().interpolate_attachment(time)
SelectKey(e, key) ==
    IF key.some /\ key.v.some
    THEN IF key.v.v \in DOMAIN e.attach.names
         THEN [name |-> key.v, skin_attach |-> e.attach.names[key.v.v]]
         ELSE Panic("unwrap on None")
    ELSE [name |-> None, skin_attach |-> e.attach.attach]

\* "search animated attachment": the pair (name, skin_attach) of slot entry e,
\* or a panic
SelectAttachment(e, time) ==
    IF e.attach.kind = "Static" THEN [name |-> None, skin_attach |-> e.attach.attach]
    ELSE IF ~e.anim.some THEN Panic("unwrap on None")
    ELSE SelectKey(e, interpolate_attachment(e.anim.v, time))

\* name.unwrap_or_else(|| skin_attach.name.or_else(|| slot.attachment).expect(..)),
\* given that one of the three is there
AttachName(name, skin_attach, slot) ==
    IF name.some THEN name.v
    ELSE IF skin_attach.name.some THEN skin_attach.name.v
    ELSE slot.attachment.v

\* the slot loop: "loop all slots and animate them"
RECURSIVE AnimateSlots(_, _, _, _)

\* one pass of the slot loop on entry e with the selection sel
AnimateSlot(anim_slots, srts, time, result, e, sel) ==
    IF "panic" \in DOMAIN sel THEN sel
    ELSE IF ~sel.skin_attach.some THEN AnimateSlots(Tail(anim_slots), srts, time, result)
    ELSE IF ~(sel.name.some \/ sel.skin_attach.v.name.some \/ e.slot.attachment.some)
    THEN Panic("no attachment name provided")
    ELSE IF e.slot.bone_index > Len(srts) THEN Panic("index out of bounds")
    ELSE AnimateSlots(Tail(anim_slots), srts, time,
             Append(result,
                    [attachment |-> AttachName(sel.name, sel.skin_attach.v, e.slot),
                     srt |-> srts[e.slot.bone_index],
                     color |-> IF e.anim.some THEN interpolate_color(e.anim.v, time)
                               ELSE White]))

AnimateSlots(anim_slots, srts, time, result) ==
    IF Len(anim_slots) = 0 THEN Some(result)
    ELSE AnimateSlot(anim_slots, srts, time, result, Head(anim_slots),
                     SelectAttachment(Head(anim_slots), time))

\* interpolate with the range test `time >= self.duration`
interpolate_before_end(self, time) ==
    IF FLe(self.duration, time) THEN None
    ELSE AnimateSlots(self.anim_slots, SolveBones(self.anim_bones, <<>>, time), time, <<>>)

SkinAnimationInterpolate(self, time) ==
    IF FGt(time, self.duration) THEN None
    ELSE AnimateSlots(self.anim_slots, SolveBones(self.anim_bones, <<>>, time), time, <<>>)

\* ------------------------------------------------------------------------
\* SkinAnimation::iter, AnimationIter::next

SkinAnimationIter(delta) == [time |-> R(0), delta |-> delta]

\* ------------------------------------------------------------------------
\* The json structs (src/json.rs), every optional field absent unless given

JBone(name, parent) ==
    [name |-> name, parent |-> parent, length |-> None, x |-> None, y |-> None,
     scale_x |-> None, scale_y |-> None, rotation |-> None,
     inherit_scale |-> None, inherit_rotation |-> None]

JSlot(name, bone, color, attachment) ==
    [name |-> name, bone |-> bone, color |-> color, attachment |-> attachment]

JAttachment(name) ==
    [name |-> name, type_ |-> None, x |-> None, y |-> None, scale_x |-> None,
     scale_y |-> None, rotation |-> None, width |-> None, height |-> None,
     fps |-> None, mode |-> None]

JRotate(time, curve, angle) == [time |-> R(time), curve |-> curve, angle |-> angle]

JTranslate(time, curve, x, y) == [time |-> R(time), curve |-> curve, x |-> x, y |-> y]

JScale(time, curve, x, y) == [time |-> R(time), curve |-> curve, x |-> x, y |-> y]

JColor(time, curve, color) == [time |-> R(time), curve |-> curve, color |-> color]

JAttach(time, name) == [time |-> R(time), name |-> name]

JBoneTimeline(translate, rotate, scale) ==
    [translate |-> translate, rotate |-> rotate, scale |-> scale]

JSlotTimeline(attachment, color) == [attachment |-> attachment, color |-> color]

JAnimation(bones, slots) ==
    [bones |-> bones, slots |-> slots, events |-> None, draworder |-> None]

JEvent(time) ==
    [time |-> R(time), name |-> "step", int_ |-> None, float_ |-> None, string_ |-> None]

JDrawOrder(time) == [time |-> R(time), offsets |-> None]

JDocument(bones, slots, skins, animations) ==
    [bones |-> bones, slots |-> slots, skins |-> skins, animations |-> animations]

\* the HashMap with keys `keys` and the value Value(k) at k
MapOf(keys, Value(_)) == [k \in keys |-> Value(k)]

\* all sequences over S of length at most n
SeqsUpTo(S, n) == UNION {[1..len -> S] : len \in 0..n}

\* ------------------------------------------------------------------------
\* State

VARIABLES
    ct,         \* SpecCurve: the CurveTimeline whose get_percent is called
    calls,      \* SpecCurve: the last two get_percent calls, [percent, out]
    kind,       \* SpecTimeline: the value kind of the timeline
    timelines,  \* SpecTimeline: the CurveTimelines built by from_json_vec
    query,      \* SpecTimeline: the last interpolate call, [elapsed, out]
    doc,        \* the json::Document handed to Skeleton::from_json
    skeleton,   \* the Result of Skeleton::from_json, None before the call
    request,    \* the (skin, animation) arguments of SkinAnimation::new
    session,    \* the Result of SkinAnimation::new, None before the call
    sample,     \* the last SkinAnimation::interpolate call
    iter,       \* the AnimationIter, None before SkinAnimation::iter
    last        \* the last AnimationIter::next call, [at, result]

vars == <<ct, calls, kind, timelines, query, doc, skeleton, request, session,
          sample, iter, last>>

curveVars == <<ct, calls>>

timelineVars == <<kind, timelines, query>>

sessionVars == <<doc, skeleton, request, session, sample, iter, last>>

CurveIdle == ct = None /\ calls = <<>>

TimelineIdle == kind = "" /\ timelines = <<>> /\ query = None

SessionIdle ==
    /\ doc = None
    /\ skeleton = None
    /\ request = None
    /\ session = None
    /\ sample = None
    /\ iter = None
    /\ last = None

\* ------------------------------------------------------------------------
\* SpecCurve: get_percent on one keyframe

CtrlDen == 2

PctDen == 20

\* bezier control points in [0, 1]
CtrlPoints == {Frac(k, CtrlDen) : k \in 0..CtrlDen}

Curves ==
    {CurveLinear, CurveStepped}
    \cup {CurveBezier(<<cx1, cy1, cx2, cy2>>) : cx1 \in CtrlPoints, cy1 \in CtrlPoints,
                                               cx2 \in CtrlPoints, cy2 \in CtrlPoints}

\* input fractions in [0, 1]
Percents == {Frac(k, PctDen) : k \in 0..PctDen}

\* the keyframe from_json_vec builds for a rotate key with the given curve
Keyframe(curve) ==
    from_json_vec("rotate", Some(<<JRotate(0, Some(curve), None)>>)).v[1]

CurveInit ==
    /\ ct \in {Keyframe(curve) : curve \in Curves}
    /\ calls = <<>>
    /\ TimelineIdle
    /\ SessionIdle

GetPercent ==
    \E percent \in Percents :
        LET call == [percent |-> percent, out |-> get_percent(ct, percent)]
        IN  /\ calls' = IF Len(calls) = 2 THEN <<calls[2], call>> ELSE Append(calls, call)
            /\ UNCHANGED <<ct, timelineVars, sessionVars>>

CurveNext == GetPercent

SpecCurve == CurveInit /\ [][CurveNext]_vars

\* ------------------------------------------------------------------------
\* SpecTimeline: CurveTimelines::interpolate on one timeline

MaxKeys == 3

MaxRotKeys == 2

KeyTimeGrid == 0..2

SampleTimes == {Frac(k, 2) : k \in 0..7}

RotateKeys ==
    {JRotate(t, c, Some(R(a))) :
        t \in KeyTimeGrid,
        c \in {None, Some(CurveStepped), Some(CurveBezier(<<R(0), R(0), R(1), R(1)>>))},
        a \in {170, 190}}

AttachKeys == {JAttach(t, n) : t \in KeyTimeGrid, n \in {None, Some("legA"), Some("legB")}}

\* the (kind, json keyframe vector) inputs; key times in any order
TimelineInputs ==
    {<<"rotate", v>> : v \in SeqsUpTo(RotateKeys, MaxRotKeys)}
    \cup {<<"attachment", v>> : v \in SeqsUpTo(AttachKeys, MaxKeys)}

TimelineInit ==
    /\ \E in \in TimelineInputs :
          /\ kind = in[1]
          /\ timelines = from_json_vec(in[1], Some(in[2])).v
    /\ query = None
    /\ CurveIdle
    /\ SessionIdle

TimelineInterpolate ==
    \E elapsed \in SampleTimes :
        /\ query' = Some([elapsed |-> elapsed, out |-> interpolate(kind, timelines, elapsed)])
        /\ UNCHANGED <<kind, timelines, curveVars, sessionVars>>

TimelineNext == TimelineInterpolate

SpecTimeline == TimelineInit /\ [][TimelineNext]_vars

\* ------------------------------------------------------------------------
\* SpecFraction: CurveTimelines::interpolate with the bracket fraction in f32

\* key times in seconds; the first is -2^25, where an f32 moves in steps of 4
FractionTimes == {-33554432, 0, 1, 3}

FractionKeys == {JAttach(t, Some("legA")) : t \in FractionTimes}

FractionInit ==
    /\ kind = "attachment"
    /\ \E keys \in SeqsUpTo(FractionKeys, MaxKeys) :
           timelines = from_json_vec("attachment", Some(keys)).v
    /\ query = None
    /\ CurveIdle
    /\ SessionIdle

FractionInterpolate ==
    \E elapsed \in SampleTimes :
        /\ query' = Some([elapsed |-> elapsed] @@ interpolate32(kind, timelines, elapsed))
        /\ UNCHANGED <<kind, timelines, curveVars, sessionVars>>

FractionNext == FractionInterpolate

SpecFraction == FractionInit /\ [][FractionNext]_vars

\* ------------------------------------------------------------------------
\* SpecLoad: Skeleton::from_json on one document

MaxBones == 2

\* a string that is not hexadecimal
BadHex == <<NotHex, 0>>

LoadBones ==
    SeqsUpTo({JBone(n, p) : n \in {"root", "hip"},
                            p \in {None, Some("root"), Some("hip")}}, MaxBones)

LoadSlots ==
    {None}
    \cup {Some(<<JSlot("legs", b, c, None)>>) : b \in {"root", "tail"},
                                               c \in {None, Some(BadHex)}}

NoBoneTimeline(name) == JBoneTimeline(None, None, None)

NoSlotTimeline(name) == JSlotTimeline(None, None)

LoadAnimation(bone_keys, slot_keys) ==
    JAnimation(Some(MapOf(bone_keys, NoBoneTimeline)), Some(MapOf(slot_keys, NoSlotTimeline)))

LoadAnimations ==
    {None}
    \cup {Some("walk" :> LoadAnimation(bk, sk)) :
             bk \in SUBSET {"root", "tail"}, sk \in SUBSET {"legs", "arms"}}
    \cup {Some("walk" :> LoadAnimation({"tail"}, {}) @@ "run" :> LoadAnimation({}, {"arms"})),
          Some("walk" :> LoadAnimation({"root"}, {}) @@ "run" :> LoadAnimation({}, {"legs"}))}

PlainAttachments(name) == "legA" :> JAttachment(None)

LoadSkins ==
    {None} \cup {Some("default" :> MapOf(sk, PlainAttachments)) : sk \in SUBSET {"legs", "arms"}}

LoadDocs ==
    {JDocument(b, sl, sk, a) :
        b \in {None} \cup {Some(v) : v \in LoadBones},
        sl \in LoadSlots, sk \in LoadSkins, a \in LoadAnimations}

LoadInit ==
    /\ doc \in {Some(d) : d \in LoadDocs}
    /\ skeleton = None
    /\ request = None
    /\ session = None
    /\ sample = None
    /\ iter = None
    /\ last = None
    /\ CurveIdle
    /\ TimelineIdle

\* Skeleton::from_json(doc)
Load ==
    /\ doc.some
    /\ skeleton = None
    /\ \E result \in SkeletonFromJson(doc.v) : skeleton' = Some(result)
    /\ UNCHANGED <<doc, request, session, sample, iter, last, curveVars, timelineVars>>

LoadNext == Load

SpecLoad == LoadInit /\ [][LoadNext]_vars

\* ------------------------------------------------------------------------
\* Spec: a document is loaded, a session is resolved and then sampled, by
\* SkinAnimation::interpolate and through an AnimationIter

MaxTime == 3

MaxDelta == 2

MaxClock == 4

\* the string "00000000"
HexClear == <<0, 0, 0, 0, 0, 0, 0, 0>>

\* documents that vary the bone hierarchy: root <- hip <- foot, every rest
\* rotation a multiple of 90 degrees and one slot on every bone; ir and is are hip's inherit flags (foot
\* has them swapped), ra and ha tell whether "walk" animates root and hip
PoseBones(ir, is) ==
    <<[JBone("root", None) EXCEPT !.rotation = Some(R(90)), !.scale_x = Some(R(2)),
                                  !.x = Some(R(1))],
      [JBone("hip", Some("root")) EXCEPT !.rotation = Some(R(90)), !.scale_x = Some(R(3)),
                                         !.scale_y = Some(R(2)), !.x = Some(R(1)),
                                         !.inherit_rotation = ir, !.inherit_scale = is],
      [JBone("foot", Some("hip")) EXCEPT !.rotation = Some(R(180)), !.scale_y = Some(R(5)),
                                         !.y = Some(R(1)),
                                         !.inherit_rotation = is, !.inherit_scale = ir]>>

PoseTimeline(name) ==
    IF name = "root"
    THEN JBoneTimeline(None,
                       Some(<<JRotate(0, None, Some(R(0))), JRotate(2, None, Some(R(180)))>>),
                       Some(<<JScale(0, None, None, None),
                              JScale(2, None, Some(R(3)), None)>>))
    ELSE JBoneTimeline(Some(<<JTranslate(1, None, Some(R(2)), None)>>),
                       Some(<<JRotate(0, Some(CurveStepped), Some(R(90))),
                              JRotate(2, None, Some(R(-90)))>>),
                       None)

\* every slot of these documents shows one attachment, named as the slot
OneAttachment(name) == name :> JAttachment(None)

PoseDoc(ir, is, animated) ==
    JDocument(Some(PoseBones(ir, is)),
              Some(<<JSlot("body", "root", None, Some("body")),
                     JSlot("legs", "hip", None, Some("legs")),
                     JSlot("toe", "foot", None, Some("toe"))>>),
              Some("default" :> MapOf({"body", "legs", "toe"}, OneAttachment)),
              Some("walk" :> JAnimation(IF animated = {} THEN None
                                        ELSE Some(MapOf(animated, PoseTimeline)),
                                        None)))

OptBool == {None, Some(TRUE), Some(FALSE)}

PoseDocs ==
    {PoseDoc(ir, is, animated) :
        ir \in OptBool, is \in OptBool, animated \in SUBSET {"root", "hip"}}

\* documents that vary one slot: its default attachment, a second skin, and
\* the attachment and color keys of its timeline in "walk"
AttachTimelines ==
    {None,
     Some(<<JAttach(0, Some("legA")), JAttach(2, Some("legB"))>>),
     Some(<<JAttach(0, Some("legA")), JAttach(1, None), JAttach(2, Some("legB"))>>),
     Some(<<JAttach(1, Some("legB")), JAttach(3, Some("legA"))>>),
     Some(<<JAttach(0, Some("legC"))>>)}

ColorTimelines ==
    {None, Some(<<JColor(0, None, Some(HexClear)), JColor(2, None, None)>>)}

SlotAttachments(name) ==
    IF name = "legs"
    THEN "legA" :> JAttachment(None) @@ "legB" :> JAttachment(Some("legB.png"))
    ELSE "head" :> JAttachment(None)

RedAttachments(name) ==
    "legA" :> [JAttachment(Some("legA-red")) EXCEPT !.x = Some(R(5)), !.width = Some(R(2))]

TheSlotTimeline(att, col) == LET Value(name) == JSlotTimeline(att, col) IN MapOf({"legs"}, Value)

SlotDoc(dflt, red, att, col) ==
    JDocument(Some(<<JBone("root", None),
                     [JBone("hip", Some("root")) EXCEPT !.x = Some(R(1))]>>),
              Some(<<JSlot("legs", "hip", None, dflt),
                     JSlot("head", "root", Some(HexClear), Some("head"))>>),
              Some(IF red
                   THEN "default" :> MapOf({"legs", "head"}, SlotAttachments)
                        @@ "red" :> MapOf({"legs"}, RedAttachments)
                   ELSE "default" :> MapOf({"legs", "head"}, SlotAttachments)),
              Some("walk" :> JAnimation(None, Some(TheSlotTimeline(att, col)))))

SlotDocs ==
    {SlotDoc(dflt, red, att, col) :
        dflt \in {None, Some("legA")}, red \in BOOLEAN,
        att \in AttachTimelines, col \in ColorTimelines}

\* documents that vary the skins map: absent, or holding any of "default" and
\* "red", each skin showing legA on the one slot
SkinDoc(skins) ==
    JDocument(Some(<<JBone("root", None)>>),
              Some(<<JSlot("legs", "root", None, Some("legA"))>>),
              skins,
              Some("walk" :> JAnimation(None, None)))

SkinMaps ==
    {None} \cup {Some([name \in names |-> MapOf({"legs"}, RedAttachments)]) :
                    names \in SUBSET {"default", "red"}}

SkinDocs == {SkinDoc(skins) : skins \in SkinMaps}

\* documents that vary the parent references of the bones: backward, to a
\* name used twice, to the bone itself and forward
ParentDoc(bones) ==
    JDocument(Some(bones),
              Some(<<JSlot("legs", bones[Len(bones)].name, None, None)>>),
              Some("default" :> EmptyMap),
              None)

ParentDocs ==
    {ParentDoc(<<JBone("root", None), JBone("root", Some("root")), JBone("hip", Some("root"))>>),
     ParentDoc(<<JBone("root", None), JBone("hip", Some("hip"))>>),
     ParentDoc(<<JBone("hip", Some("root")), JBone("root", None)>>),
     ParentDoc(<<JBone("root", Some("root"))>>)}

\* documents that vary the key times of "walk": at gives, for each kind of
\* sub-timeline and for events and draworder, the times of its keyframes
TimedKeys(times, Key(_)) ==
    IF times = <<>> THEN None ELSE Some([i \in 1..Len(times) |-> Key(times[i])])

TimedDoc(at) ==
    LET Translate(t) == JTranslate(t, None, None, None)
        Rotate(t) == JRotate(t, None, None)
        Scale(t) == JScale(t, None, None, None)
        Attach(t) == JAttach(t, Some("legA"))
        Color(t) == JColor(t, None, None)
    IN  JDocument(Some(<<JBone("root", None)>>),
                  Some(<<JSlot("legs", "root", None, Some("legA"))>>),
                  Some("default" :> MapOf({"legs"}, PlainAttachments)),
                  Some("walk" :>
                       [bones |-> Some("root" :> JBoneTimeline(TimedKeys(at.translate, Translate),
                                                               TimedKeys(at.rotate, Rotate),
                                                               TimedKeys(at.scale, Scale))),
                        slots |-> Some("legs" :> JSlotTimeline(TimedKeys(at.attachment, Attach),
                                                               TimedKeys(at.color, Color))),
                        events |-> TimedKeys(at.events, JEvent),
                        draworder |-> TimedKeys(at.draworder, JDrawOrder)]))

TimelineKinds == {"translate", "rotate", "scale", "attachment", "color"}

\* no keyframes at all; one kind of sub-timeline ending last, after or before
\* the last event; every keyframe at a negative time
KeyTimings ==
    LET Only(late, keys, other, events) ==
            [k \in TimelineKinds \cup {"events", "draworder"} |->
                IF k = late THEN keys
                ELSE IF k \in TimelineKinds THEN other
                ELSE events]
    IN  {Only("", <<>>, <<>>, <<>>), Only("", <<>>, <<>>, <<2>>), Only("", <<>>, <<-1>>, <<>>),
         Only("translate", <<-2, -1>>, <<>>, <<1>>)}
        \cup {Only(k, <<1, 3>>, <<2>>, e) : k \in TimelineKinds, e \in {<<>>, <<MaxTime + 1>>}}
        \cup {Only(k, <<1>>, <<>>, <<0>>) : k \in TimelineKinds}

TimedDocs == {TimedDoc(at) : at \in KeyTimings}

SessionDocs == PoseDocs \cup SlotDocs \cup SkinDocs \cup ParentDocs \cup TimedDocs

SkinArgs == {"default", "red"}

AnimationArgs == {None, Some("walk"), Some("run")}

Times == {R(t) : t \in 0..MaxTime}

Deltas == {R(d) : d \in 0..MaxDelta}

Init ==
    /\ doc \in {Some(d) : d \in SessionDocs}
    /\ skeleton = None
    /\ request = None
    /\ session = None
    /\ sample = None
    /\ iter = None
    /\ last = None
    /\ CurveIdle
    /\ TimelineIdle

\* skeleton.get_animated_skin(skin, animation)
Resolve ==
    /\ skeleton.some
    /\ skeleton.v.ok
    /\ session = None
    /\ \E skin \in SkinArgs, animation \in AnimationArgs :
          /\ request' = Some([skin |-> skin, animation |-> animation])
          /\ session' = Some(SkinAnimationNew(skeleton.v.v, skin, animation))
    /\ UNCHANGED <<doc, skeleton, sample, iter, last, curveVars, timelineVars>>

\* session.interpolate(time)
Sample ==
    /\ session.some
    /\ session.v.ok
    /\ \E time \in Times :
          sample' = Some([time |-> time,
                          result |-> SkinAnimationInterpolate(session.v.v, time)])
    /\ UNCHANGED <<doc, skeleton, request, session, iter, last, curveVars, timelineVars>>

\* session.iter(delta)
Iter ==
    /\ session.some
    /\ session.v.ok
    /\ iter = None
    /\ \E delta \in Deltas : iter' = Some(SkinAnimationIter(delta))
    /\ UNCHANGED <<doc, skeleton, request, session, sample, last, curveVars, timelineVars>>

\* `self.time += self.delta` in AnimationIter::next
Advance ==
    /\ iter.some
    /\ FLe(iter.v.time, R(MaxClock))
    /\ iter' = Some([iter.v EXCEPT !.time = FAdd(iter.v.time, iter.v.delta)])

\* iter.next(): the result is the sample at the clock before it advances
IterNext ==
    /\ Advance
    /\ last' = Some([at |-> iter.v.time,
                     result |-> SkinAnimationInterpolate(session.v.v, iter.v.time)])
    /\ UNCHANGED <<doc, skeleton, request, session, sample, curveVars, timelineVars>>

Next == Load \/ Resolve \/ Sample \/ Iter \/ IterNext

Spec == Init /\ [][Next]_vars

\* the caller of an iterator keeps calling next(): in Spec the steps that
\* advance the clock of the iterator are the IterNext steps
SpecFair == Spec /\ WF_iter(Advance)

\* ------------------------------------------------------------------------
\* Properties of CurveTimelines::interpolate (SpecTimeline)

\* key times ascending
Sorted(tls) == \A i \in 1..(Len(tls) - 1) : FLe(tls[i].time, tls[i + 1].time)

\* key times strictly increasing
StrictlySorted(tls) == \A i \in 1..(Len(tls) - 1) : FLt(tls[i].time, tls[i + 1].time)

\* C3: on a timeline sorted ascending by time, interpolate(t) is None when the
\* timeline is empty or t is before the first key time, and is the last
\* keyframe's value, unchanged, when t is at or after the last key time.
C3_TimelineEnds ==
    (query.some /\ Sorted(timelines)) =>
        LET n == Len(timelines)
            t == query.v.elapsed
        IN  /\ (n = 0 \/ FLt(t, timelines[1].time)) => query.v.out = None
            /\ (n > 0 /\ FLe(timelines[n].time, t)) => query.v.out = Some(timelines[n].value)

\* a sorted timeline sampled exactly at its last key time, whose last two
\* keyframes differ in time and value, and one sampled before its first key
C3_Witness ==
    /\ query.some
    /\ Sorted(timelines)
    /\ Len(timelines) >= 2
    /\ LET n == Len(timelines)
       IN  /\ query.v.elapsed = timelines[n].time
           /\ FLt(timelines[n - 1].time, timelines[n].time)
           /\ timelines[n - 1].value # timelines[n].value
           /\ query.v.out = Some(timelines[n].value)

\* C5: blending two adjacent rotate keyframes whose angles lie on opposite
\* sides of the +/-180 wraparound goes the short way: the blended value is
\* within 180 degrees of the earlier keyframe's angle.
C5_ShortWay ==
    (query.some /\ kind = "rotate" /\ StrictlySorted(timelines)) =>
        \A i \in 1..(Len(timelines) - 1) :
            LET a == timelines[i].value
                b == timelines[i + 1].value
                t == query.v.elapsed
            IN  (/\ FLe(timelines[i].time, t)
                 /\ FLt(t, timelines[i + 1].time)
                 /\ timelines[i].curve = CurveLinear
                 /\ FGt(FAbs(FSub(b, a)), R(180)))
                => (query.v.out.some /\ FLe(FAbs(FSub(query.v.out.v, a)), R(180)))

\* ------------------------------------------------------------------------
\* Properties of CurveTimeline::get_percent (SpecCurve)

\* C7: get_percent maps 0 to 0 and 1 to 1 for the linear curve and for every
\* bezier curve with control points in [0, 1], and is 0 everywhere for the
\* stepped curve.
C7_Endpoints ==
    \A i \in 1..Len(calls) :
        /\ ct.curve.kind = "CurveStepped" => calls[i].out = R(0)
        /\ ct.curve.kind \in {"CurveLinear", "CurveBezier"} =>
              /\ calls[i].percent = R(0) => calls[i].out = R(0)
              /\ calls[i].percent = R(1) => calls[i].out = R(1)

\* C8: for a bezier curve with control points in [0, 1], get_percent is
\* monotonically non-decreasing on [0, 1]: p1 <= p2 never gives
\* get_percent(p2) < get_percent(p1).
C8_Monotone ==
    (ct.curve.kind = "CurveBezier" /\ Len(calls) = 2
        /\ FLe(calls[1].percent, calls[2].percent))
    => ~FLt(calls[2].out, calls[1].out)

\* ------------------------------------------------------------------------
\* Properties of Skeleton::from_json (SpecLoad)

BoneNames(d) == IF d.bones.some THEN {d.bones.v[i].name : i \in 1..Len(d.bones.v)} ELSE {}

SlotNames(d) == IF d.slots.some THEN {d.slots.v[i].name : i \in 1..Len(d.slots.v)} ELSE {}

\* parent names that match no bone earlier in document order
UnresolvedParents(d) ==
    IF d.bones.some
    THEN {d.bones.v[i].parent.v :
             i \in {j \in 1..Len(d.bones.v) :
                       /\ d.bones.v[j].parent.some
                       /\ \A k \in 1..(j - 1) : d.bones.v[k].name # d.bones.v[j].parent.v}}
    ELSE {}

\* bone names of slots that match no bone
UnresolvedSlotBones(d) ==
    IF d.slots.some
    THEN {d.slots.v[i].bone : i \in 1..Len(d.slots.v)} \ BoneNames(d)
    ELSE {}

\* bone names referenced by animations that match no bone
UnresolvedAnimBones(d) ==
    UNION {IF a.bones.some THEN DOMAIN a.bones.v ELSE {} : a \in MapValues(d.animations)}
    \ BoneNames(d)

\* slot names referenced by animations that match no slot
UnresolvedAnimSlots(d) ==
    UNION {IF a.slots.some THEN DOMAIN a.slots.v ELSE {} : a \in MapValues(d.animations)}
    \ SlotNames(d)

\* slot names referenced by skins that match no slot
UnresolvedSkinSlots(d) == UNION {DOMAIN sk : sk \in MapValues(d.skins)} \ SlotNames(d)

BadBoneRefs(d) == UnresolvedParents(d) \cup UnresolvedSlotBones(d) \cup UnresolvedAnimBones(d)

BadSlotRefs(d) == UnresolvedAnimSlots(d) \cup UnresolvedSkinSlots(d)

\* a slot tint that is not a hex string
BadColors(d) ==
    /\ d.slots.some
    /\ \E i \in 1..Len(d.slots.v) :
          d.slots.v[i].color.some /\ ~from_hex(d.slots.v[i].color.v).ok

\* C10: from_json rejects the document, with an error value and no skeleton,
\* whenever a name reference is unresolved.  A BoneNotFound names an unresolved
\* bone reference (a parent not earlier in document order, a slot's bone, an
\* animation's bone) and a SlotNotFound names an unresolved slot reference (a
\* skin's or an animation's slot); an unresolved parent always gives
\* BoneNotFound, and a document whose only defects are bone (slot) references
\* gives BoneNotFound (SlotNotFound).
C10_RejectsUnresolved ==
    (doc.some /\ skeleton.some) =>
        LET d == doc.v
            r == skeleton.v
        IN  /\ (BadBoneRefs(d) \cup BadSlotRefs(d) # {}) => ~r.ok
            /\ (~r.ok /\ r.err.kind = "BoneNotFound") => r.err.name \in BadBoneRefs(d)
            /\ (~r.ok /\ r.err.kind = "SlotNotFound") => r.err.name \in BadSlotRefs(d)
            /\ UnresolvedParents(d) # {} => (~r.ok /\ r.err.kind = "BoneNotFound")
            /\ (BadBoneRefs(d) # {} /\ BadSlotRefs(d) = {} /\ ~BadColors(d))
                  => (~r.ok /\ r.err.kind = "BoneNotFound")
            /\ (BadSlotRefs(d) # {} /\ BadBoneRefs(d) = {} /\ ~BadColors(d))
                  => (~r.ok /\ r.err.kind = "SlotNotFound")

\* a document whose second bone is the parent named by its first (a forward
\* reference) and that is otherwise consistent, rejected with BoneNotFound
C10_Witness ==
    /\ doc.some
    /\ skeleton.some
    /\ doc.v.bones.some
    /\ Len(doc.v.bones.v) = 2
    /\ doc.v.bones.v[1].parent = Some("hip")
    /\ doc.v.bones.v[2].name = "hip"
    /\ BadSlotRefs(doc.v) = {}
    /\ skeleton.v = Err([kind |-> "BoneNotFound", name |-> "hip"])

\* ------------------------------------------------------------------------
\* Properties of the sampling session (Spec, SpecFair)

\* a resolved session has been sampled
Sampled == session.some /\ session.v.ok /\ sample.some

\* C1: SkinAnimation::interpolate(t) returns None exactly when t > duration and
\* Some(sprite list) for every t <= duration, t = duration included; a
\* session resolved without an animation has duration 0
C1_NoneIffPastDuration ==
    /\ Sampled =>
          /\ (sample.v.result = None) <=> FGt(sample.v.time, session.v.v.duration)
          /\ FLe(sample.v.time, session.v.v.duration) => sample.v.result.some
    /\ (session.some /\ session.v.ok /\ ~request.v.animation.some) =>
          session.v.v.duration = R(0)

\* a session with an animation of positive duration sampled at t = duration
\* shows sprites
C1_Witness ==
    /\ Sampled
    /\ request.v.animation.some
    /\ FGt(session.v.v.duration, R(0))
    /\ sample.v.time = session.v.v.duration
    /\ sample.v.result.some
    /\ Len(sample.v.result.v) > 0

\* C2: the streaming sequence is finite: for every delta passed to
\* SkinAnimation::iter, once next() has been called, after finitely many more
\* calls next() returns None
C2_StreamEnds == last.some ~> (last.some /\ last.v.result = None)

\* the attachment keys (an Option) of slot "legs" in animation "walk"
LegKeys ==
    IF doc.v.animations.v["walk"].slots.some
    THEN doc.v.animations.v["walk"].slots.v["legs"].attachment
    ELSE None

\* key i is the last key at or before t
KeyHolds(keys, i, t) ==
    FLe(keys[i].time, t) /\ (i = Len(keys) \/ FLt(t, keys[i + 1].time))

\* C4: with attachment keys (t_i, name_i) at strictly increasing times, a
\* sample at t_i <= t < t_(i+1) resolves the slot to name_i and a sample at
\* t = t_(i+1) to name_(i+1); a name the skin holds is the sprite's attachment
C4_SwitchAtKey ==
    (/\ Sampled
     /\ sample.v.result.some
     /\ request.v.animation = Some("walk")
     /\ LegKeys.some
     /\ StrictlySorted(LegKeys.v)) =>
        \A i \in 1..Len(LegKeys.v) :
            KeyHolds(LegKeys.v, i, sample.v.time) =>
                /\ interpolate_attachment(session.v.v.anim_slots[1].anim.v, sample.v.time)
                      = Some(LegKeys.v[i].name)
                /\ (/\ LegKeys.v[i].name.some
                    /\ LegKeys.v[i].name.v \in DOMAIN doc.v.skins.v["default"]["legs"]) =>
                       /\ Len(sample.v.result.v) = Len(doc.v.slots.v)
                       /\ sample.v.result.v[1].attachment = LegKeys.v[i].name.v

\* a sample exactly at the second key shows the second key's attachment, which
\* differs from the first
C4_Witness ==
    /\ Sampled
    /\ sample.v.result.some
    /\ request.v.animation = Some("walk")
    /\ LegKeys.some
    /\ Len(LegKeys.v) >= 2
    /\ sample.v.time = LegKeys.v[2].time
    /\ LegKeys.v[2].name.some
    /\ LegKeys.v[1].name # LegKeys.v[2].name
    /\ Len(sample.v.result.v) = 2
    /\ sample.v.result.v[1].attachment = LegKeys.v[2].name.v

\* the sample shows one sprite per bone: slot k sits on bone k
SpritePerBone ==
    /\ Sampled
    /\ sample.v.result.some
    /\ Len(sample.v.result.v) = Len(session.v.v.anim_bones)
    /\ \A k \in 1..Len(session.v.v.anim_slots) :
           session.v.v.anim_slots[k].slot.bone_index = k

\* the animated srt of bone entry e at time t, the identity without a timeline
AnimSrt(e, t) ==
    IF e.anim.some THEN BoneTimelineSrt(e.anim.v, t)
    ELSE SRTNew(None, None, None, None, None)

\* rest rotation plus animated rotation
LocalRotation(e, t) == FAdd(e.bone.srt.rotation, AnimSrt(e, t).rotation)

\* rest scale times animated scale
LocalScale(e, t) ==
    <<FMul(e.bone.srt.scale[1], AnimSrt(e, t).scale[1]),
      FMul(e.bone.srt.scale[2], AnimSrt(e, t).scale[2])>>

\* the world srt of bone i in the sample
WorldSrt(i) == sample.v.result.v[i].srt

\* C6: a child bone's world rotation is its local rotation, plus the parent's
\* world rotation exactly when inherit_rotation is set; its world scale is its
\* local scale, times the parent's world scale exactly when inherit_scale is set
C6_Inherit ==
    SpritePerBone =>
        \A i \in 1..Len(session.v.v.anim_bones) :
            LET e == session.v.v.anim_bones[i]
                p == e.bone.parent_index
            IN  p.some =>
                  /\ WorldSrt(i).rotation =
                        IF e.bone.inherit_rotation
                        THEN FAdd(LocalRotation(e, sample.v.time), WorldSrt(p.v).rotation)
                        ELSE LocalRotation(e, sample.v.time)
                  /\ WorldSrt(i).scale =
                        IF e.bone.inherit_scale
                        THEN <<FMul(LocalScale(e, sample.v.time)[1], WorldSrt(p.v).scale[1]),
                               FMul(LocalScale(e, sample.v.time)[2], WorldSrt(p.v).scale[2])>>
                        ELSE LocalScale(e, sample.v.time)

\* a sample where a child ignores a rotated parent and another child ignores a
\* scaled parent
C6_Witness ==
    /\ SpritePerBone
    /\ \E i \in 1..Len(session.v.v.anim_bones) :
          LET b == session.v.v.anim_bones[i].bone
          IN  /\ b.parent_index.some
              /\ ~b.inherit_rotation
              /\ WorldSrt(b.parent_index.v).rotation # R(0)
              /\ WorldSrt(i).rotation = LocalRotation(session.v.v.anim_bones[i], sample.v.time)
    /\ \E i \in 1..Len(session.v.v.anim_bones) :
          LET b == session.v.v.anim_bones[i].bone
          IN  /\ b.parent_index.some
              /\ ~b.inherit_scale
              /\ WorldSrt(b.parent_index.v).scale # <<R(1), R(1)>>
              /\ WorldSrt(i).scale = LocalScale(session.v.v.anim_bones[i], sample.v.time)

\* ------------------------------------------------------------------------
\* Properties of SkinAnimation::new (Spec)

\* the session was resolved from a loaded skeleton
Resolved == skeleton.some /\ skeleton.v.ok /\ request.some /\ session.some

\* C11: SkinAnimation::new returns SkinNotFound when the requested skin is
\* absent or when the skin named "default" is absent, even if the requested
\* skin exists; AnimationNotFound when a named animation is not in the
\* skeleton; and succeeds otherwise, in particular with no animation name
\* whenever both skins exist.
C11_ResolveErrors ==
    Resolved =>
        LET skins == DOMAIN skeleton.v.v.skins
            animations == DOMAIN skeleton.v.v.animations
            skin == request.v.skin
            animation == request.v.animation
        IN  IF skin \notin skins
            THEN session.v = Err([kind |-> "SkinNotFound", name |-> skin])
            ELSE IF "default" \notin skins
            THEN session.v = Err([kind |-> "SkinNotFound", name |-> "default"])
            ELSE IF animation.some /\ animation.v \notin animations
            THEN session.v = Err([kind |-> "AnimationNotFound", name |-> animation.v])
            ELSE session.v.ok

\* the requested skin "red" exists, no animation is named, and the session is
\* refused because the skeleton has no skin named "default"
C11_Witness ==
    /\ Resolved
    /\ request.v.skin = "red"
    /\ request.v.animation = None
    /\ "red" \in DOMAIN skeleton.v.v.skins
    /\ session.v = Err([kind |-> "SkinNotFound", name |-> "default"])

\* ------------------------------------------------------------------------
\* Properties of the slot loop of SkinAnimation::interpolate (Spec)

\* the result of an interpolate call is a panic
Panicked(result) == "panic" \in DOMAIN result

\* the entries of anim_slots in the resolved session
SlotEntries == session.v.v.anim_slots

\* C12: once a session is resolved, interpolate never fails structurally: no
\* call panics; for every dynamic slot there is a slot timeline and the name
\* the attachment timeline returns at the sampled time is a key of the table
\* of names built by SkinAnimation::new; every slot that emits a sprite has a
\* name for it; every slot's bone_index indexes a solved bone.
C12_NoStructuralFailure ==
    /\ last.some => ~Panicked(last.v.result)
    /\ (session.some /\ session.v.ok /\ sample.some) =>
          /\ ~Panicked(sample.v.result)
          /\ \A i \in 1..Len(SlotEntries) :
                LET e == SlotEntries[i]
                    sel == SelectAttachment(e, sample.v.time)
                IN  /\ e.slot.bone_index \in 1..Len(session.v.v.anim_bones)
                    /\ e.attach.kind = "Dynamic" =>
                          /\ e.anim.some
                          /\ LET key == interpolate_attachment(e.anim.v, sample.v.time)
                             IN  (key.some /\ key.v.some) => key.v.v \in DOMAIN e.attach.names
                    /\ ~Panicked(sel)
                    /\ sel.skin_attach.some =>
                          \/ sel.name.some
                          \/ sel.skin_attach.v.name.some
                          \/ e.slot.attachment.some

\* a dynamic slot sampled where its timeline names an attachment, emitted as a
\* sprite of that name, and one whose timeline names an attachment no skin has
C12_Witness ==
    /\ session.some /\ session.v.ok /\ sample.some
    /\ sample.v.result.some
    /\ \E i \in 1..Len(SlotEntries) :
          LET e == SlotEntries[i]
          IN  /\ e.attach.kind = "Dynamic"
              /\ interpolate_attachment(e.anim.v, sample.v.time) = Some(Some("legB"))
              /\ e.attach.names["legB"].some
              /\ \E k \in 1..Len(sample.v.result.v) :
                    sample.v.result.v[k].attachment = "legB"

\* ------------------------------------------------------------------------
\* Properties of the bone hierarchy (Spec)

\* every parent index of bones is strictly less than its bone's own position
ParentsFirst(bones) ==
    \A i \in 1..Len(bones) :
        bones[i].parent_index.some => bones[i].parent_index.v \in 1..(i - 1)

\* C13: in every successfully built skeleton each bone's parent_index, when
\* present, is strictly less than the bone's own position; and in the single
\* forward pass of the pose solve, when bone i is solved (i - 1 transforms are
\* stored) its parent's transform is among them: the lookup never misses.
C13_ParentsFirst ==
    /\ (skeleton.some /\ skeleton.v.ok) => ParentsFirst(skeleton.v.v.bones)
    /\ (session.some /\ session.v.ok) =>
          LET anim_bones == session.v.v.anim_bones
          IN  \A i \in 1..Len(anim_bones) :
                  LET srts == SolveBones(SubSeq(anim_bones, 1, i - 1), <<>>, R(0))
                      b == anim_bones[i].bone
                  IN  b.parent_index.some => b.parent_index.v \in 1..Len(srts)

\* a chain of three bones was loaded, the third under the second, from a
\* document that names its second bone like its first, and a pose was solved
C13_Witness ==
    /\ skeleton.some /\ skeleton.v.ok
    /\ Len(skeleton.v.v.bones) = 3
    /\ skeleton.v.v.bones[2].name = skeleton.v.v.bones[1].name
    /\ skeleton.v.v.bones[3].parent_index = Some(1)
    /\ session.some /\ session.v.ok
    /\ sample.some /\ sample.v.result.some

\* ------------------------------------------------------------------------
\* Properties of the sprites emitted by SkinAnimation::interpolate (Spec)

\* a pose was sampled from a resolved session
Posed == session.some /\ session.v.ok /\ sample.some /\ sample.v.result.some

\* slot entry e is dynamic and the value of its attachment timeline at t is a
\* keyframe without a name
HiddenByKey(e, t) ==
    /\ e.attach.kind = "Dynamic"
    /\ e.anim.some
    /\ interpolate_attachment(e.anim.v, t) = Some(None)

\* C14: a dynamic slot whose attachment timeline evaluates at t to a keyframe
\* without a name is hidden: the sprites emitted at t are those of the other
\* slots only, even if the hidden slot has a resolvable default attachment.
C14_NullKeyHides ==
    Posed =>
        LET t == sample.v.time
            Shown(e) == ~HiddenByKey(e, t)
        IN  sample.v.result =
                AnimateSlots(SelectSeq(SlotEntries, Shown),
                             SolveBones(session.v.v.anim_bones, <<>>, t), t, <<>>)

\* slot entry e emits a sprite at t
Emits(e, t) == LET sel == SelectAttachment(e, t) IN ~Panicked(sel) /\ sel.skin_attach.some

\* the place, in the sprite list sampled at t, of the sprite of slot i
SpriteIndex(i, t) == Cardinality({j \in 1..i : Emits(SlotEntries[j], t)})

\* the attachment `key` of the slot named `slot` as the document gives it in
\* the skin named `skin`
JsonAttach(skin, slot, key) ==
    IF /\ doc.v.skins.some
       /\ skin \in DOMAIN doc.v.skins.v
       /\ slot \in DOMAIN doc.v.skins.v[skin]
       /\ key \in DOMAIN doc.v.skins.v[skin][slot]
    THEN Some(doc.v.skins.v[skin][slot][key])
    ELSE None

\* the document's attachment that slot entry e resolves to at t: the one in the
\* requested skin, else the one in the default skin
ResolvedJson(e, t) ==
    LET sel == SelectAttachment(e, t)
        key == IF sel.name.some THEN sel.name.v ELSE e.slot.attachment.v
    IN  OptionOr(JsonAttach(request.v.skin, e.slot.name, key),
                 JsonAttach("default", e.slot.name, key))

\* an attachment's local SRT
LocalSrt(a) == SRTNew(a.scale_x, a.scale_y, a.rotation, a.x, a.y)

\* composing A with B: translations and rotations add, scales multiply
Compose(A, B) ==
    SRTOf(<<FMul(A.scale[1], B.scale[1]), FMul(A.scale[2], B.scale[2])>>,
          FAdd(A.rotation, B.rotation),
          <<FAdd(A.position[1], B.position[1]), FAdd(A.position[2], B.position[2])>>)

\* C15: every emitted sprite's transform is the resolved attachment's local
\* SRT composed with the world SRT of the slot's bone, so that attachments
\* with different local SRTs on one slot give different sprite transforms.
C15_SpriteSrtComposed ==
    Posed =>
        LET t == sample.v.time
            srts == SolveBones(session.v.v.anim_bones, <<>>, t)
        IN  \A i \in 1..Len(SlotEntries) :
                LET e == SlotEntries[i]
                IN  (Emits(e, t) /\ ResolvedJson(e, t).some) =>
                        sample.v.result.v[SpriteIndex(i, t)].srt =
                            Compose(LocalSrt(ResolvedJson(e, t).v), srts[e.slot.bone_index])

\* C16: every emitted sprite is named by the resolved attachment's display
\* name, or by the slot's own default attachment name when the attachment has
\* no display name, for static slots and for dynamic slots alike, also when the
\* keyframe name that selected the attachment differs from its display name.
C16_SpriteNamed ==
    Posed =>
        LET t == sample.v.time
        IN  \A i \in 1..Len(SlotEntries) :
                LET e == SlotEntries[i]
                    a == SelectAttachment(e, t).skin_attach
                IN  (Emits(e, t) /\ (a.v.name.some \/ e.slot.attachment.some)) =>
                        sample.v.result.v[SpriteIndex(i, t)].attachment =
                            IF a.v.name.some THEN a.v.name.v ELSE e.slot.attachment.v

\* ------------------------------------------------------------------------
\* Properties of Animation::duration (Spec)

\* the times of all keyframes of the translate, rotate, scale, attachment and
\* color sub-timelines of the document's animation a
AllKeyTimes(a) ==
    LET TimesOf(opt) == IF opt.some THEN {opt.v[i].time : i \in DOMAIN opt.v} ELSE {}
    IN  UNION ({TimesOf(a.bones.v[b].translate) \cup TimesOf(a.bones.v[b].rotate)
                    \cup TimesOf(a.bones.v[b].scale) :
                    b \in IF a.bones.some THEN DOMAIN a.bones.v ELSE {}}
               \cup {TimesOf(a.slots.v[sl].attachment) \cup TimesOf(a.slots.v[sl].color) :
                    sl \in IF a.slots.some THEN DOMAIN a.slots.v ELSE {}})

\* d is the greatest element of the set of times S
IsMaxOf(d, S) == d \in S /\ \A t \in S : FLe(t, d)

\* the session resolved for a named animation carries the duration computed
\* at load
DurationKept ==
    (Resolved /\ session.v.ok /\ request.v.animation.some) =>
        session.v.v.duration = skeleton.v.v.animations[request.v.animation.v].duration

\* C17 (as claimed): an animation's duration is the maximum keyframe time over
\* all its translate, rotate, scale, attachment and color sub-timelines, and 0
\* when it has no keyframes; it is never negative, is the one computed at load
\* and does not depend on event and draw-order keyframes.
C17_DurationIsMaxKeyTime ==
    /\ DurationKept
    /\ (skeleton.some /\ skeleton.v.ok) =>
          \A name \in DOMAIN skeleton.v.v.animations :
              LET times == AllKeyTimes(doc.v.animations.v[name])
                  d == skeleton.v.v.animations[name].duration
              IN  /\ FLe(R(0), d)
                  /\ IF times = {} THEN d = R(0) ELSE IsMaxOf(d, times)

\* C17 (amended): an animation's duration is the maximum of 0 and the keyframe
\* times of all its translate, rotate, scale, attachment and color
\* sub-timelines: the maximum keyframe time unless that is negative, and 0 when
\* there are no keyframes or all are at negative times; it is never negative,
\* is the one computed at load and does not depend on event and draw-order
\* keyframes.
C17_DurationIsMaxKeyTimeOrZero ==
    /\ DurationKept
    /\ (skeleton.some /\ skeleton.v.ok) =>
          \A name \in DOMAIN skeleton.v.v.animations :
              IsMaxOf(skeleton.v.v.animations[name].duration,
                      AllKeyTimes(doc.v.animations.v[name]) \cup {R(0)})

\* an animation whose last keyframe is a color key at time 3, with an event
\* after it, loaded with duration 3 and sampled there
C17_Witness ==
    /\ Posed
    /\ request.v.animation = Some("walk")
    /\ doc.v.animations.v["walk"].events = Some(<<JEvent(MaxTime + 1)>>)
    /\ doc.v.animations.v["walk"].slots.v["legs"].color = Some(<<JColor(1, None, None), JColor(3, None, None)>>)
    /\ skeleton.v.v.animations["walk"].duration = R(3)
    /\ session.v.v.duration = R(3)
    /\ sample.v.time = R(3)

\* ------------------------------------------------------------------------
\* Properties of the color blend (Spec)

\* the byte nearest to f, for f in [0, 255], halves rounded up
RoundToByte(f) == (2 * f.n + f.d) \div (2 * f.d)

\* the fraction of the way from keyframe k to the next at time t, as the curve
\* of keyframe k maps it
CurveFraction(keys, k, t) ==
    get_percent(keys[k], FDiv(FSub(t, keys[k].time), FSub(keys[k + 1].time, keys[k].time)))

\* C18: between two color keyframes a and b the sprite's tint is, per channel,
\* a + p' * (b - a) computed on the bytes as floats and rounded to the nearest
\* byte (channels 0 and 255 at p' = 0.5 give 128).
C18_ColorRounded ==
    Posed =>
        LET t == sample.v.time
        IN  \A i \in 1..Len(SlotEntries) :
                LET e == SlotEntries[i]
                IN  (Emits(e, t) /\ e.anim.some /\ StrictlySorted(e.anim.v.color)) =>
                        \A k \in 1..(Len(e.anim.v.color) - 1) :
                            LET keys == e.anim.v.color
                            IN  (FLe(keys[k].time, t) /\ FLt(t, keys[k + 1].time)) =>
                                    \A c \in 1..4 :
                                        sample.v.result.v[SpriteIndex(i, t)].color[c] =
                                            RoundToByte(InterpolateF32(R(keys[k].value[c]),
                                                                       R(keys[k + 1].value[c]),
                                                                       CurveFraction(keys, k, t)))

\* ---- C19 ----

\* the sampled timeline blended two keyframes
Blended == query.some /\ query.v.w # 0

\* the bracket chosen: prev.time <= t < next.time, a divisor above zero and
\* a fraction that is not negative
Bracketed(prev, next, t, p) ==
    /\ FLe(prev.time, t)
    /\ FLt(t, next.time)
    /\ FLt(R(0), FSub32(next.time, prev.time))
    /\ FLe(R(0), p)

\* C19: whenever interpolate blends two keyframes, the bracket satisfies
\* prev.time <= t < next.time for any keyframe sequence, the divisor
\* next.time - prev.time is strictly positive and the time fraction p handed
\* to the curve evaluator lies in [0, 1).
C19_FractionBelowOne ==
    Blended =>
        /\ Bracketed(timelines[query.v.w], timelines[query.v.w + 1],
                     query.v.elapsed, query.v.fraction.v)
        /\ FLt(query.v.fraction.v, R(1))

\* C19 as it holds of the code: the same bracket and divisor, and a time
\* fraction in [0, 1]; the f32 quotient rounds to 1 when both differences
\* round to the same f32.
C19_FractionInUnit ==
    Blended =>
        /\ Bracketed(timelines[query.v.w], timelines[query.v.w + 1],
                     query.v.elapsed, query.v.fraction.v)
        /\ FLe(query.v.fraction.v, R(1))

\* a blend inside a sequence that is not sorted, on a fraction rounded to 1
C19_Witness ==
    /\ Blended
    /\ \E i \in 1..(Len(timelines) - 1) : FLt(timelines[i + 1].time, timelines[i].time)
    /\ query.v.fraction.v = R(1)

====
